---- MODULE Spec2Model ----
(***************************************************************************)
(* Model of the observability pipeline of gokit (src/loki/loki.go):        *)
(* the Loki client (Client.Log, Client.Stop, processQueue, sendBatch), the *)
(* zap facade (Logger.With, Named, Close), the lokiWriter adapter and the  *)
(* context logger (Errorf ... Print) with its request-scoped store.        *)
(***************************************************************************)
EXTENDS Integers, Sequences, FiniteSets, TLC

(* ---------------------------------------------------------------------- *)
(* Bounds of the model                                                     *)
(* ---------------------------------------------------------------------- *)
\* number of Client.Log calls explored
MaxLogs == 3
\* largest configured Config.BatchSize explored (-1 and 0 select the default)
MaxBatchSize == 2
\* number of context logger calls explored
MaxCalls == 2
\* number of PopAll calls explored
MaxPops == 2
\* Logger values derived by With and Named, the one New returns included
MaxLoggers == 3
\* calls of Logger.Close
MaxCloses == 2
\* words of a rendered line handed to lokiWriter.Write
MaxWords == 2
\* calls of lokiWriter.Write
MaxWrites == 1
\* characters of the file name runtime.Caller reports
MaxPathLen == 7

\* default batch size of NewClient
DefaultBatchSize == 100

ConfigBatchSizes == -1..MaxBatchSize
Levels == {"info", "error"}
Messages == {"a"}
\* Config.Labels explored: one ordinary label and one that collides with "level"
LabelConfigs == { [job |-> "app", level |-> "cfg"] }
\* HTTP status codes the backend may answer with
StatusCodes == {199, 200, 299, 300}

(* ---------------------------------------------------------------------- *)
(* Pure helpers translated from the source                                 *)
(* ---------------------------------------------------------------------- *)
EffectiveBatchSize_ZeroKept(cfg) == IF cfg < 0 THEN DefaultBatchSize ELSE cfg

\* NewClient: if config.BatchSize <= 0 { config.BatchSize = 100 }
EffectiveBatchSize(cfg) == IF cfg <= 0 THEN DefaultBatchSize ELSE cfg

QueueCapacity_Single(bs) == bs

\* NewClient: make(chan entry, config.BatchSize*2)
QueueCapacity(bs) == bs * 2

\* Client.Log: a send on the buffered channel can proceed iff it is not full
SendReady(q, cap) == Len(q) < cap

BatchFull_Strict(b, bs) == Len(b) > bs

\* processQueue: if len(batch) >= c.BatchSize
BatchFull(b, bs) == Len(b) >= bs

BatchPending_OffByOne(b) == Len(b) > 1

BatchPending_Always(b) == TRUE

\* processQueue: if len(batch) > 0
BatchPending(b) == Len(b) > 0

ResetBatch_Keep(b) == b

\* processQueue: batch = make([]entry, 0, c.BatchSize) after a flush of b
ResetBatch(b) == <<>>

RECURSIVE GroupByLevel_Overwrite(_)
GroupByLevel_Overwrite(entries) ==
  IF entries = <<>> THEN <<>>
  ELSE LET n == Len(entries)
           e == entries[n]
           m == GroupByLevel_Overwrite(SubSeq(entries, 1, n - 1))
       IN  [l \in DOMAIN m \cup {e.Level} |-> IF l = e.Level THEN <<e>> ELSE m[l]]

\* sendBatch: entriesByLevel[e.Level] = append(entriesByLevel[e.Level], e)
RECURSIVE GroupByLevel(_)
GroupByLevel(entries) ==
  IF entries = <<>> THEN <<>>
  ELSE LET n == Len(entries)
           e == entries[n]
           m == GroupByLevel(SubSeq(entries, 1, n - 1))
       IN  [l \in DOMAIN m \cup {e.Level} |->
              IF l = e.Level
              THEN (IF l \in DOMAIN m THEN Append(m[l], e) ELSE <<e>>)
              ELSE m[l]]

\* sendBatch: labels := copy of c.Labels; labels["level"] = level
StreamLabels(defaults, level) ==
  [k \in DOMAIN defaults \cup {"level"} |->
     IF k = "level" THEN level ELSE defaults[k]]

\* sendBatch: ts := fmt.Sprintf("%d", e.Timestamp.UnixNano()); []string{ts, e.Message}
StreamValue(e) == <<ToString(e.Timestamp), e.Message>>

StreamValues_Reversed(levelEntries) ==
  [i \in 1..Len(levelEntries) |->
     StreamValue(levelEntries[Len(levelEntries) + 1 - i])]

\* sendBatch: values = append(values, ...) for each entry of the level
StreamValues(levelEntries) ==
  [i \in 1..Len(levelEntries) |-> StreamValue(levelEntries[i])]

\* sendBatch: stream{Stream: labels, Values: values}
MakeStream(defaults, level, levelEntries) ==
  [Stream |-> StreamLabels(defaults, level), Values |-> StreamValues(levelEntries)]

\* the orders in which "for level := range entriesByLevel" may visit the keys
KeyOrders(S) ==
  { o \in [1..Cardinality(S) -> S] : \A i, j \in DOMAIN o : i # j => o[i] # o[j] }

\* sendBatch: pushRequest{Streams: streams} for one iteration order of the map
BuildRequest(defaults, entries, order) ==
  LET byLevel == GroupByLevel(entries)
  IN  [Streams |-> [i \in 1..Len(order) |->
                      MakeStream(defaults, order[i], byLevel[order[i]])]]

\* the values a push request carries under the label level = l, in wire order
RECURSIVE ValuesIn(_, _)
ValuesIn(streams, l) ==
  IF streams = <<>> THEN <<>>
  ELSE (IF Head(streams).Stream["level"] = l THEN Head(streams).Values ELSE <<>>)
       \o ValuesIn(Tail(streams), l)

ValuesFor(req, l) == ValuesIn(req.Streams, l)

\* sendBatch: if resp.StatusCode < 200 || resp.StatusCode >= 300 { error }
StatusFailed(code) == code < 200 \/ code >= 300

(* ---------------------------------------------------------------------- *)
(* State                                                                   *)
(* ---------------------------------------------------------------------- *)
VARIABLES
  BatchSize,    \* Client.BatchSize
  Labels,       \* Client.Labels
  entriesQueue, \* Client.entriesQueue: buffered channel contents, FIFO
  done,         \* Client.done is closed
  panicked,     \* the process died of close of a closed channel
  tickPending,  \* ticker.C holds a tick (channel of capacity 1)
  batch,        \* processQueue: local batch
  pc,           \* processQueue position: select, send, sendFinal, stopped
  inFlight,     \* number of HTTPClient.Do calls that have not returned
  lastRequest,  \* the pushRequest built by the latest sendBatch
  lastBatch,    \* the entries given to the latest sendBatch
  lastFailed,   \* the latest sendBatch printed an error diagnostic
  nFlushes,     \* number of sendBatch calls so far
  flushed,      \* every entry given to sendBatch so far, in order
  streamed,     \* per level, every value put in a stream of that level so far
  accepted,     \* every entry accepted into the queue so far, in order
  nDropped,     \* number of Log calls that took the default (drop) branch
  nLogs,        \* number of Log calls so far (also the clock of time.Now)
  ticked,       \* the ticker has fired at least once
  cfgBatchSize, \* Config.BatchSize as passed to NewClient
  \* zap facade
  loggers,      \* the Logger values created so far; loggers[1] is New's
  closeTrace,   \* what the Close calls did so far, in order
  \* lokiWriter
  lastWrite,    \* argument and result of the latest lokiWriter.Write
  \* call site of a logger method
  callSite,     \* what runtime.Caller reported and the file text made of it
  \* context logger and request-scoped store
  appEnv,       \* value of the environment variable APP_ENV
  slot,         \* store slot _LogMessages
  saltKey,      \* store slot _SaltKey
  gpc,          \* per goroutine: idle, or loaded (between LoadAndDelete and Set)
  glocal,       \* per goroutine: local variable messages
  gmsg,         \* per goroutine: the LogMessage being appended
  emitted,      \* lines printed by the fallback fmt.Printf, in order
  stored,       \* the LogMessages whose Set completed, in order of completion
  popped,       \* the results of the PopAll calls so far
  nCalls,       \* number of logger calls so far
  lastCall,     \* method and context of the latest logger call
  overlap       \* some store operation started while an append was in progress

facadeVars == <<loggers, closeTrace>>

storeVars == <<appEnv, slot, saltKey, gpc, glocal, gmsg, emitted, stored,
               popped, nCalls, lastCall, overlap>>

\* what the Loki client and its worker never touch
otherVars == <<cfgBatchSize, facadeVars, lastWrite, callSite, storeVars>>

vars == <<BatchSize, Labels, entriesQueue, done, panicked, tickPending, batch,
          pc, inFlight, lastRequest, lastBatch, lastFailed, nFlushes, flushed,
          streamed, accepted, nDropped, nLogs, ticked, otherVars>>

Capacity == QueueCapacity(BatchSize)

NoRequest == [Streams |-> <<>>]

\* NewClient
NewClient ==
  /\ cfgBatchSize \in ConfigBatchSizes
  /\ BatchSize = EffectiveBatchSize(cfgBatchSize)
  /\ Labels \in LabelConfigs
  /\ entriesQueue = <<>>
  /\ done = FALSE
  /\ panicked = FALSE
  /\ tickPending = FALSE
  /\ batch = <<>>
  /\ pc = "select"
  /\ inFlight = 0
  /\ lastRequest = NoRequest
  /\ lastBatch = <<>>
  /\ lastFailed = FALSE
  /\ nFlushes = 0
  /\ flushed = <<>>
  /\ streamed = [l \in Levels |-> <<>>]
  /\ accepted = <<>>
  /\ nDropped = 0
  /\ nLogs = 0
  /\ ticked = FALSE

\* a Logger value: its lokiClient field and how its zap.Logger was derived
MakeLogger(client, zap) == [lokiClient |-> client, zap |-> zap]

NoWrite == [p |-> <<>>, n |-> -1]

NoCallSite == [fileName |-> <<>>, line |-> -1, file |-> <<>>]

Goroutines == {1, 2}

AbsentSlot == [present |-> FALSE, val |-> <<>>]

NoMessage == [Level |-> "", Message |-> 0]

NoCall == [op |-> "", ctx |-> ""]

\* no Logger besides the one that owns the client, no logger call so far
Quiet ==
  /\ closeTrace = <<>>
  /\ lastWrite = NoWrite
  /\ callSite = NoCallSite
  /\ appEnv = ""
  /\ slot = AbsentSlot
  /\ saltKey = AbsentSlot
  /\ gpc = [g \in Goroutines |-> "idle"]
  /\ glocal = [g \in Goroutines |-> <<>>]
  /\ gmsg = [g \in Goroutines |-> NoMessage]
  /\ emitted = <<>>
  /\ stored = <<>>
  /\ popped = <<>>
  /\ nCalls = 0
  /\ lastCall = NoCall
  /\ overlap = FALSE

\* logger.New with Loki enabled
Init ==
  /\ NewClient
  /\ loggers = <<MakeLogger("client", <<>>)>>
  /\ Quiet

(* ---------------------------------------------------------------------- *)
(* Producers                                                               *)
(* ---------------------------------------------------------------------- *)
LogSend_RefuseAfterStop(level, message) ==
  /\ ~panicked
  /\ nLogs < MaxLogs
  /\ LET e == [Timestamp |-> nLogs + 1, Level |-> level, Message |-> message]
     IN  \/ /\ SendReady(entriesQueue, Capacity) /\ ~done
            /\ entriesQueue' = Append(entriesQueue, e)
            /\ accepted' = Append(accepted, e)
            /\ nDropped' = nDropped
         \/ /\ ~SendReady(entriesQueue, Capacity) \/ done
            /\ entriesQueue' = entriesQueue
            /\ accepted' = accepted
            /\ nDropped' = nDropped + 1
  /\ nLogs' = nLogs + 1
  /\ UNCHANGED <<BatchSize, Labels, done, panicked, tickPending, batch, pc,
                 inFlight, lastRequest, lastBatch, lastFailed, nFlushes, flushed,
                 streamed, ticked>>

\* the body of Client.Log: a send on entriesQueue that never waits
LogSend(level, message) ==
  /\ ~panicked
  /\ nLogs < MaxLogs
  /\ LET e == [Timestamp |-> nLogs + 1, Level |-> level, Message |-> message]
     IN  \/ /\ SendReady(entriesQueue, Capacity)      \* case c.entriesQueue <- e
            /\ entriesQueue' = Append(entriesQueue, e)
            /\ accepted' = Append(accepted, e)
            /\ nDropped' = nDropped
         \/ /\ ~SendReady(entriesQueue, Capacity)     \* default
            /\ entriesQueue' = entriesQueue
            /\ accepted' = accepted
            /\ nDropped' = nDropped + 1
  /\ nLogs' = nLogs + 1
  /\ UNCHANGED <<BatchSize, Labels, done, panicked, tickPending, batch, pc,
                 inFlight, lastRequest, lastBatch, lastFailed, nFlushes, flushed,
                 streamed, ticked>>

Log_Blocking(level, message) ==
  /\ ~panicked
  /\ nLogs < MaxLogs
  /\ SendReady(entriesQueue, Capacity)
  /\ entriesQueue' = Append(entriesQueue,
        [Timestamp |-> nLogs + 1, Level |-> level, Message |-> message])
  /\ accepted' = Append(accepted,
        [Timestamp |-> nLogs + 1, Level |-> level, Message |-> message])
  /\ nDropped' = nDropped
  /\ nLogs' = nLogs + 1
  /\ UNCHANGED <<otherVars, BatchSize, Labels, done, panicked, tickPending, batch, pc,
                 inFlight, lastRequest, lastBatch, lastFailed, nFlushes, flushed,
                 streamed, ticked>>

\* Client.Log
Log(level, message) ==
  /\ LogSend(level, message)
  /\ UNCHANGED otherVars

\* close(c.done): closing a closed channel panics
CloseDone ==
  IF done THEN panicked' = TRUE /\ done' = done
          ELSE done' = TRUE /\ panicked' = panicked

\* Client.Stop
Stop ==
  /\ ~panicked
  /\ CloseDone
  /\ UNCHANGED <<otherVars, BatchSize, Labels, entriesQueue, tickPending, batch, pc,
                 inFlight, lastRequest, lastBatch, lastFailed, nFlushes, flushed,
                 streamed, accepted, nDropped, nLogs, ticked>>

\* time.Ticker delivers a tick into ticker.C unless one is already buffered
Tick ==
  /\ ~panicked
  /\ pc # "stopped"
  /\ ~tickPending
  /\ tickPending' = TRUE
  /\ ticked' = TRUE
  /\ UNCHANGED <<otherVars, BatchSize, Labels, entriesQueue, done, panicked, batch, pc,
                 inFlight, lastRequest, lastBatch, lastFailed, nFlushes, flushed,
                 streamed, accepted, nDropped, nLogs>>

(* ---------------------------------------------------------------------- *)
(* Worker                                                                  *)
(* ---------------------------------------------------------------------- *)
SendingPc_Async(final) == IF final THEN "stopped" ELSE "select"

\* where processQueue is while c.sendBatch(batch) waits for HTTPClient.Do
SendingPc(final) == IF final THEN "sendFinal" ELSE "send"

ReturnPc_Loop(final) == "select"

\* where processQueue goes when c.sendBatch returns
ReturnPc(final) == IF final THEN "stopped" ELSE "select"

\* sendBatch up to HTTPClient.Do: group, build, marshal, create the request.
\* json.Marshal or http.NewRequestWithContext may fail ("marshal", "newreq"):
\* sendBatch then prints and returns without any HTTP call.
SendBatch(entries, final) ==
  /\ lastBatch' = entries
  /\ flushed' = flushed \o entries
  /\ nFlushes' = nFlushes + 1
  /\ \E order \in KeyOrders(DOMAIN GroupByLevel(entries)) :
       LET req == BuildRequest(Labels, entries, order)
       IN  /\ lastRequest' = req
           /\ streamed' = [l \in Levels |-> streamed[l] \o ValuesFor(req, l)]
  /\ \E fault \in {"none", "marshal", "newreq"} :
       IF fault = "none"
       THEN /\ pc' = SendingPc(final)
            /\ inFlight' = inFlight + 1
            /\ lastFailed' = FALSE
       ELSE /\ pc' = ReturnPc(final)
            /\ inFlight' = inFlight
            /\ lastFailed' = TRUE

NoSend ==
  UNCHANGED <<inFlight, lastRequest, lastBatch, lastFailed, nFlushes, flushed,
              streamed>>

\* processQueue: case <-c.done
WorkerDone ==
  /\ ~panicked
  /\ pc = "select"
  /\ done
  /\ IF BatchPending(batch)
     THEN SendBatch(batch, TRUE)
     ELSE pc' = ReturnPc(TRUE) /\ NoSend
  /\ UNCHANGED <<otherVars, BatchSize, Labels, entriesQueue, done, panicked, tickPending,
                 batch, accepted, nDropped, nLogs, ticked>>

\* processQueue: case e := <-c.entriesQueue
WorkerRecv ==
  /\ ~panicked
  /\ pc = "select"
  /\ entriesQueue # <<>>
  /\ entriesQueue' = Tail(entriesQueue)
  /\ LET b == Append(batch, Head(entriesQueue))
     IN  IF BatchFull(b, BatchSize)
         THEN SendBatch(b, FALSE) /\ batch' = ResetBatch(b)
         ELSE batch' = b /\ pc' = pc /\ NoSend
  /\ UNCHANGED <<otherVars, BatchSize, Labels, done, panicked, tickPending, accepted,
                 nDropped, nLogs, ticked>>

\* processQueue: case <-ticker.C
WorkerTick ==
  /\ ~panicked
  /\ pc = "select"
  /\ tickPending
  /\ tickPending' = FALSE
  /\ IF BatchPending(batch)
     THEN SendBatch(batch, FALSE) /\ batch' = ResetBatch(batch)
     ELSE batch' = batch /\ pc' = pc /\ NoSend
  /\ UNCHANGED <<otherVars, BatchSize, Labels, entriesQueue, done, panicked, accepted,
                 nDropped, nLogs, ticked>>

\* sendBatch from the return of HTTPClient.Do to the return of sendBatch
SendReturn ==
  /\ ~panicked
  /\ pc \in {"send", "sendFinal"}
  /\ inFlight > 0
  /\ inFlight' = inFlight - 1
  /\ \/ lastFailed' = TRUE                       \* HTTPClient.Do returned an error
     \/ \E code \in StatusCodes : lastFailed' = StatusFailed(code)
  /\ pc' = ReturnPc(pc = "sendFinal")
  /\ UNCHANGED <<otherVars, BatchSize, Labels, entriesQueue, done, panicked, tickPending,
                 batch, lastRequest, lastBatch, nFlushes, flushed, streamed,
                 accepted, nDropped, nLogs, ticked>>

Next ==
  \/ \E level \in Levels, message \in Messages : Log(level, message)
  \/ Stop
  \/ Tick
  \/ WorkerDone
  \/ WorkerRecv
  \/ WorkerTick
  \/ SendReturn

Spec == Init /\ [][Next]_vars

\* the ticker keeps firing, every ready select case is eventually taken and
\* every push returns (it is bounded by its timeout)
Fairness ==
  /\ WF_vars(Tick)
  /\ SF_vars(WorkerDone)
  /\ SF_vars(WorkerRecv)
  /\ SF_vars(WorkerTick)
  /\ WF_vars(SendReturn)

FairSpec == Spec /\ Fairness

(* ---------------------------------------------------------------------- *)
(* Context logger and request-scoped store                                 *)
(* ---------------------------------------------------------------------- *)
\* the methods of type logger
Ops == {"Errorf", "Error", "DebugF", "Debug", "Printf", "Print"}

\* contexts a call may pass: nil, one carrying no store, one carrying the store
Contexts == {"nil", "bare", "bound"}

\* values of APP_ENV explored
EnvValues == {"", "Production", "staging"}

\* values passed to SetSaltKey
SaltValues == {"", "k"}

\* value of the environment variable NEW_SALT_KEY
EnvSaltKey == "envsalt"

\* the Level constant each method stores: err, debug, print
LevelOf(op) ==
  CASE op \in {"Errorf", "Error"} -> "err"
    [] op \in {"DebugF", "Debug"} -> "debug"
    [] op \in {"Printf", "Print"} -> "print"

\* the prefix of the fallback fmt.Printf of each method
PrefixOf(op) ==
  CASE op \in {"Errorf", "Error"} -> "ERROR"
    [] op \in {"DebugF", "Debug"} -> "DEBUG"
    [] op \in {"Printf", "Print"} -> "INFO"

\* DebugF and Debug are the methods that read APP_ENV
IsDebugOp(op) == op \in {"DebugF", "Debug"}

\* strings.ToUpper on the values explored
ToUpper(v) ==
  CASE v = "Production" -> "PRODUCTION"
    [] v = "staging" -> "STAGING"
    [] OTHER -> v

IsProduction_CaseSensitive(env) == env # "" /\ env = "PRODUCTION"

\* DebugF: appEnv = strings.ToUpper(env.GetString("APP_ENV"));
\*         !reflect.ValueOf(appEnv).IsZero() && appEnv == "PRODUCTION"
IsProduction(env) ==
  LET upper == ToUpper(env) IN upper # "" /\ upper = "PRODUCTION"

\* extract(ctx): the store bound to the context, if any
ExtractFound(ctx) == ctx = "bound"

\* value.LoadAndDelete(key): the value of the slot, which is left absent
LoadAndDelete(sl) == [tmp |-> sl.val, ok |-> sl.present, after |-> AbsentSlot]

\* value.Set(key, v): the slot holds v, whatever it held
StoreSet(sl, v) == [present |-> TRUE, val |-> v]

\* Errorf: if ok && tmp != nil { messages = existingMessages }
ExistingMessages(loaded) == IF loaded.ok THEN loaded.tmp ELSE <<>>

AppendMessage_Prepend(messages, message) == <<message>> \o messages

\* Errorf: messages = append(messages, message)
AppendMessage(messages, message) == Append(messages, message)

FallbackLine_Bare(op, id, why) == <<"", id, why>>

\* Errorf: fmt.Printf("ERROR: %v (nil context)\n", ...)
FallbackLine(op, id, why) == <<PrefixOf(op), id, why>>

\* a logger method up to and including value.LoadAndDelete(_LogMessages)
LoggerCall(g, op, ctx) ==
  /\ gpc[g] = "idle"
  /\ nCalls < MaxCalls
  /\ nCalls' = nCalls + 1
  /\ lastCall' = [op |-> op, ctx |-> ctx]
  /\ IF IsDebugOp(op) /\ IsProduction(appEnv)
     THEN UNCHANGED <<slot, gpc, glocal, gmsg, emitted, overlap>>
     ELSE IF ctx = "nil"
     THEN /\ emitted' = Append(emitted, FallbackLine(op, nCalls + 1, "nil context"))
          /\ UNCHANGED <<slot, gpc, glocal, gmsg, overlap>>
     ELSE IF ~ExtractFound(ctx)
     THEN /\ emitted' = Append(emitted,
                 FallbackLine(op, nCalls + 1, "logger not found in context"))
          /\ UNCHANGED <<slot, gpc, glocal, gmsg, overlap>>
     ELSE LET loaded == LoadAndDelete(slot)
          IN  /\ slot' = loaded.after
              /\ glocal' = [glocal EXCEPT ![g] = ExistingMessages(loaded)]
              /\ gmsg' = [gmsg EXCEPT
                            ![g] = [Level |-> LevelOf(op), Message |-> nCalls + 1]]
              /\ gpc' = [gpc EXCEPT ![g] = "loaded"]
              /\ overlap' = (overlap \/ \E h \in Goroutines : gpc[h] = "loaded")
              /\ emitted' = emitted
  /\ UNCHANGED <<saltKey, appEnv, stored, popped>>

\* a logger method from messages = append(...) to value.Set(_LogMessages, ...)
LoggerSet(g) ==
  /\ gpc[g] = "loaded"
  /\ slot' = StoreSet(slot, AppendMessage(glocal[g], gmsg[g]))
  /\ stored' = Append(stored, gmsg[g])
  /\ gpc' = [gpc EXCEPT ![g] = "idle"]
  /\ glocal' = [glocal EXCEPT ![g] = <<>>]
  /\ gmsg' = [gmsg EXCEPT ![g] = NoMessage]
  /\ UNCHANGED <<saltKey, appEnv, emitted, popped, nCalls, lastCall, overlap>>

\* PopAll(store): read and clear the accumulated messages in one step
PopAll ==
  /\ Len(popped) < MaxPops
  /\ LET loaded == LoadAndDelete(slot)
     IN  /\ popped' = Append(popped, ExistingMessages(loaded))
         /\ slot' = loaded.after
  /\ overlap' = (overlap \/ \E h \in Goroutines : gpc[h] = "loaded")
  /\ UNCHANGED <<saltKey, appEnv, gpc, glocal, gmsg, emitted, stored, nCalls,
                 lastCall>>

\* SetSaltKey
SetSaltKey(ctx, val) ==
  /\ IF ctx = "nil" \/ ~ExtractFound(ctx)
     THEN saltKey' = saltKey
     ELSE saltKey' = StoreSet(saltKey, IF val = "" THEN EnvSaltKey ELSE val)
  /\ saltKey' # saltKey
  /\ UNCHANGED <<appEnv, slot, gpc, glocal, gmsg, emitted, stored, popped,
                 nCalls, lastCall, overlap>>

\* the environment changes APP_ENV
SetEnv(v) ==
  /\ v # appEnv
  /\ appEnv' = v
  /\ UNCHANGED <<slot, saltKey, gpc, glocal, gmsg, emitted, stored, popped,
                 nCalls, lastCall, overlap>>

shipperVars == <<BatchSize, Labels, entriesQueue, done, panicked, tickPending,
                 batch, pc, inFlight, lastRequest, lastBatch, lastFailed,
                 nFlushes, flushed, streamed, accepted, nDropped, nLogs, ticked,
                 cfgBatchSize>>

StoreNext ==
  \/ \E g \in Goroutines, op \in Ops, ctx \in Contexts :
       LoggerCall(g, op, ctx) /\ UNCHANGED <<shipperVars, facadeVars, lastWrite, callSite>>
  \/ \E g \in Goroutines :
       LoggerSet(g) /\ UNCHANGED <<shipperVars, facadeVars, lastWrite, callSite>>
  \/ PopAll /\ UNCHANGED <<shipperVars, facadeVars, lastWrite, callSite>>
  \/ \E ctx \in Contexts, val \in SaltValues :
       SetSaltKey(ctx, val) /\ UNCHANGED <<shipperVars, facadeVars, lastWrite, callSite>>
  \/ \E v \in EnvValues :
       SetEnv(v) /\ UNCHANGED <<shipperVars, facadeVars, lastWrite, callSite>>

\* one request: the default client configuration, any APP_ENV
StoreInit ==
  /\ NewClient
  /\ cfgBatchSize = 0
  /\ loggers = <<MakeLogger("client", <<>>)>>
  /\ closeTrace = <<>>
  /\ lastWrite = NoWrite
  /\ callSite = NoCallSite
  /\ appEnv \in EnvValues
  /\ slot = AbsentSlot
  /\ saltKey = AbsentSlot
  /\ gpc = [g \in Goroutines |-> "idle"]
  /\ glocal = [g \in Goroutines |-> <<>>]
  /\ gmsg = [g \in Goroutines |-> NoMessage]
  /\ emitted = <<>>
  /\ stored = <<>>
  /\ popped = <<>>
  /\ nCalls = 0
  /\ lastCall = NoCall
  /\ overlap = FALSE

StoreSpec == StoreInit /\ [][StoreNext]_vars

(* ---------------------------------------------------------------------- *)
(* The facade: New, With, Named, Sync, Close                               *)
(* ---------------------------------------------------------------------- *)
\* the lokiClient field of a Logger: nil, or the one client New constructed
LokiClients == {"nil", "client"}

Event(i, what) == [logger |-> i, what |-> what]

NumCloses == Cardinality({k \in DOMAIN closeTrace : closeTrace[k].what = "close"})

\* Logger.With: a new Logger on the same lokiClient
With(i) ==
  /\ ~panicked
  /\ Len(loggers) < MaxLoggers
  /\ loggers' = Append(loggers,
        MakeLogger(loggers[i].lokiClient, Append(loggers[i].zap, "With")))
  /\ UNCHANGED <<shipperVars, closeTrace, lastWrite, callSite, storeVars>>

\* Logger.Named: a new Logger on the same lokiClient
Named(i) ==
  /\ ~panicked
  /\ Len(loggers) < MaxLoggers
  /\ loggers' = Append(loggers,
        MakeLogger(loggers[i].lokiClient, Append(loggers[i].zap, "Named")))
  /\ UNCHANGED <<shipperVars, closeTrace, lastWrite, callSite, storeVars>>

CloseSteps_SyncFirst(owns, closed) ==
  <<"sync">> \o (IF owns THEN <<"stop">> ELSE <<>>)

\* the steps of Logger.Close in program order: Stop when lokiClient is not
\* nil, then Sync unless Stop panicked on a closed channel
CloseSteps(owns, closed) ==
  IF owns THEN <<"stop">> \o (IF closed THEN <<>> ELSE <<"sync">>)
          ELSE <<"sync">>

\* Logger.Close
Close(i) ==
  /\ ~panicked
  /\ NumCloses < MaxCloses
  /\ LET steps == CloseSteps(loggers[i].lokiClient # "nil", done)
     IN  /\ IF \E k \in DOMAIN steps : steps[k] = "stop"
               THEN CloseDone
               ELSE UNCHANGED <<done, panicked>>
         /\ closeTrace' = closeTrace \o <<Event(i, "close")>>
                            \o [k \in DOMAIN steps |-> Event(i, steps[k])]
  /\ UNCHANGED <<BatchSize, Labels, entriesQueue, tickPending, batch, pc,
                 inFlight, lastRequest, lastBatch, lastFailed, nFlushes, flushed,
                 streamed, accepted, nDropped, nLogs, ticked, cfgBatchSize,
                 loggers, lastWrite, callSite, storeVars>>

\* logger.New, with Loki enabled or not; without Loki the shipper's
\* variables stand for no object and no action reads them
FacadeInit ==
  /\ NewClient
  /\ cfgBatchSize = 0
  /\ loggers \in {<<MakeLogger(c, <<>>)>> : c \in LokiClients}
  /\ Quiet

FacadeNext ==
  \/ \E i \in DOMAIN loggers : With(i)
  \/ \E i \in DOMAIN loggers : Named(i)
  \/ \E i \in DOMAIN loggers : Close(i)

FacadeSpec == FacadeInit /\ [][FacadeNext]_vars

(* ---------------------------------------------------------------------- *)
(* The delivery adapter: lokiWriter.Write                                  *)
(* ---------------------------------------------------------------------- *)
RECURSIVE Flatten(_)
Flatten(seqs) == IF seqs = <<>> THEN <<>> ELSE Head(seqs) \o Flatten(Tail(seqs))

\* the five keywords of Write, as texts
Keyword ==
  [debug |-> <<"d", "e", "b", "u", "g">>,
   info  |-> <<"i", "n", "f", "o">>,
   warn  |-> <<"w", "a", "r", "n">>,
   error |-> <<"e", "r", "r", "o", "r">>,
   fatal |-> <<"f", "a", "t", "a", "l">>]

\* the words of a rendered line: the keywords, and one in upper case
Words == {Keyword.debug, Keyword.info, Keyword.warn, Keyword.error,
          Keyword.fatal, <<"E", "R", "R", "O", "R">>}

\* the rendered lines: up to MaxWords words, the empty line included
Texts == {Flatten(ws) : ws \in UNION {[1..n -> Words] : n \in 0..MaxWords}}

\* strings.Contains
Contains(s, substr) ==
  \E k \in 0..(Len(s) - Len(substr)) : SubSeq(s, k + 1, k + Len(substr)) = substr

InferLevel_ErrorFirst(p) ==
  IF Len(p) > 0
  THEN IF Contains(p, Keyword.error) THEN "error"
       ELSE IF Contains(p, Keyword.debug) THEN "debug"
       ELSE IF Contains(p, Keyword.info) THEN "info"
       ELSE IF Contains(p, Keyword.warn) THEN "warn"
       ELSE IF Contains(p, Keyword.fatal) THEN "fatal"
       ELSE "info"
  ELSE "info"

\* the switch of Write: the first case that holds decides
InferLevel(p) ==
  IF Len(p) > 0
  THEN IF Contains(p, Keyword.debug) THEN "debug"
       ELSE IF Contains(p, Keyword.info) THEN "info"
       ELSE IF Contains(p, Keyword.warn) THEN "warn"
       ELSE IF Contains(p, Keyword.error) THEN "error"
       ELSE IF Contains(p, Keyword.fatal) THEN "fatal"
       ELSE "info"
  ELSE "info"

\* lokiWriter.Write: w.client.Log(time.Now(), level, string(p)); return len(p), nil
Write(p) ==
  /\ nLogs < MaxWrites
  /\ LogSend(InferLevel(p), p)
  /\ lastWrite' = [p |-> p, n |-> Len(p)]
  /\ UNCHANGED <<cfgBatchSize, facadeVars, callSite, storeVars>>

WriterNext == \E p \in Texts : Write(p)

WriterSpec == Init /\ [][WriterNext]_vars

(* ---------------------------------------------------------------------- *)
(* The call site of a logger method: runtime.Caller(1) and its trimming    *)
(* ---------------------------------------------------------------------- *)
\* the characters of a file name: the separator and two letters
PathChars == {"/", "a", "b"}

\* the file names runtime.Caller may report, the empty one included
FileNames == UNION {[1..n -> PathChars] : n \in 0..MaxPathLen}

\* the line numbers runtime.Caller may report
Lines == {0, 42}

\* strings.Split(s, "/")
RECURSIVE Split(_)
Split(s) ==
  IF \A k \in DOMAIN s : s[k] # "/" THEN <<s>>
  ELSE LET k == CHOOSE i \in DOMAIN s :
                  s[i] = "/" /\ \A j \in 1..(i - 1) : s[j] # "/"
       IN  <<SubSeq(s, 1, k - 1)>> \o Split(SubSeq(s, k + 1, Len(s)))

\* strings.Join(elems, "/")
RECURSIVE Join(_)
Join(elems) ==
  IF elems = <<>> THEN <<>>
  ELSE IF Len(elems) = 1 THEN elems[1]
  ELSE elems[1] \o <<"/">> \o Join(Tail(elems))

DigitChars == <<"0", "1", "2", "3", "4", "5", "6", "7", "8", "9">>

\* the %d of fmt.Sprintf
RECURSIVE Itoa(_)
Itoa(n) ==
  IF n < 10 THEN <<DigitChars[n + 1]>>
  ELSE Itoa(n \div 10) \o <<DigitChars[(n % 10) + 1]>>

\* Errorf: files := strings.Split(fileName, "/"); if len(files) > 3 { ... }
CallerFile(fileName, line) ==
  LET files == Split(fileName)
  IN  (IF Len(files) > 3
       THEN Join(SubSeq(files, Len(files) - 1, Len(files)))
       ELSE Join(files)) \o <<":">> \o Itoa(line)

\* a logger method from runtime.Caller(1) to the assignment of file; one
\* call is followed
Caller(fileName, line) ==
  /\ callSite = NoCallSite
  /\ callSite' = [fileName |-> fileName, line |-> line,
                  file |-> CallerFile(fileName, line)]
  /\ UNCHANGED <<shipperVars, facadeVars, lastWrite, storeVars>>

CallerInit ==
  /\ NewClient
  /\ cfgBatchSize = 0
  /\ loggers = <<MakeLogger("client", <<>>)>>
  /\ Quiet

CallerNext == \E fileName \in FileNames, line \in Lines : Caller(fileName, line)

CallerSpec == CallerInit /\ [][CallerNext]_vars

(* ---------------------------------------------------------------------- *)
(* Vocabulary of the properties                                            *)
(* ---------------------------------------------------------------------- *)
IsPrefix(s, t) == Len(s) <= Len(t) /\ SubSeq(t, 1, Len(s)) = s

\* the record of the i-th Log call was accepted into the queue
Accepted(i) == \E k \in DOMAIN accepted : accepted[k].Timestamp = i

\* how many times the record of the i-th Log call was given to sendBatch
FlushCount(i) == Cardinality({k \in DOMAIN flushed : flushed[k].Timestamp = i})

\* how many values of the streams sent so far carry the i-th call's timestamp
StreamCount(i) ==
  Cardinality({p \in Levels \X (1..MaxLogs) :
                 /\ p[2] \in DOMAIN streamed[p[1]]
                 /\ streamed[p[1]][p[2]][1] = ToString(i)})

OfLevel(entries, l) == SelectSeq(entries, LAMBDA e : e.Level = l)

\* the wire values of the accepted records of level l, in order of acceptance
ExpectedStream(l) ==
  LET es == OfLevel(accepted, l)
  IN  [k \in 1..Len(es) |-> <<ToString(es[k].Timestamp), es[k].Message>>]

\* the records the worker holds for a later flush (none once it took <-c.done)
Pending == IF pc \in {"select", "send"} THEN batch ELSE <<>>

LogCall == nLogs' = nLogs + 1

\* the worker took an entry from the queue (it is the only receiver)
Dequeue == Len(entriesQueue') < Len(entriesQueue)

\* the worker took the tick from ticker.C (it is the only receiver)
TickTaken == tickPending /\ ~tickPending'

\* the worker took the case <-c.done
DoneTaken == pc = "select" /\ pc' \in {"sendFinal", "stopped"}

AfterDone == pc \in {"sendFinal", "stopped"}

\* sendBatch was called in this step
Flush == nFlushes' = nFlushes + 1

StreamsOf(req) == {req.Streams[i] : i \in DOMAIN req.Streams}

\* position in the queue's acceptance order of the record behind a wire value
AcceptPos(v) ==
  CHOOSE k \in DOMAIN accepted : ToString(accepted[k].Timestamp) = v[1]
LogAny == \E level \in Levels, message \in Messages : Log(level, message)

(* ---------------------------------------------------------------------- *)
(* C1: Client.Log never blocks and never fails: whenever the process is    *)
(* alive a Log call can complete; below 2*BatchSize queued records it      *)
(* appends the record to the queue tail, on a full queue it drops the      *)
(* record and leaves the queue unchanged; it never panics.                 *)
(* ---------------------------------------------------------------------- *)
C1_LogNeverBlocks ==
  /\ []((~panicked /\ nLogs < MaxLogs) => ENABLED LogAny)
  /\ [][LogCall =>
          /\ panicked' = panicked
          /\ IF Len(entriesQueue) < 2 * BatchSize
             THEN /\ Len(entriesQueue') = Len(entriesQueue) + 1
                  /\ SubSeq(entriesQueue', 1, Len(entriesQueue)) = entriesQueue
                  /\ entriesQueue'[Len(entriesQueue')].Timestamp = nLogs + 1
                  /\ nDropped' = nDropped
             ELSE /\ entriesQueue' = entriesQueue
                  /\ nDropped' = nDropped + 1]_vars

\* a record was dropped on a full queue while earlier ones stay queued
C1_Witness ==
  /\ nDropped > 0
  /\ Len(entriesQueue) = 2 * BatchSize
  /\ ~panicked

(* ---------------------------------------------------------------------- *)
(* C2: when at most 2*BatchSize Log calls are made none is dropped, and    *)
(* every accepted record is eventually given to sendBatch, exactly once,   *)
(* in the stream of its level and in order of acceptance (as long as the   *)
(* shutdown signal is not raised).                                         *)
(* ---------------------------------------------------------------------- *)
C2_AllFlushedOnce ==
  /\ [](nLogs <= 2 * BatchSize => (nDropped = 0 /\ Len(accepted) = nLogs))
  /\ \A i \in 1..MaxLogs : Accepted(i) ~> (done \/ FlushCount(i) = 1)
  /\ [](\A i \in 1..MaxLogs : FlushCount(i) <= 1 /\ StreamCount(i) = FlushCount(i))
  /\ [](\A l \in Levels : IsPrefix(streamed[l], ExpectedStream(l)))

\* N = capacity records of both levels were logged and all of them flushed
C2_Witness ==
  /\ ~done
  /\ nLogs = 2 * BatchSize
  /\ Len(flushed) = nLogs
  /\ \A l \in Levels : streamed[l] # <<>>

(* ---------------------------------------------------------------------- *)
(* C3 as stated: more than 2*BatchSize Log calls before the first tick     *)
(* retain exactly 2*BatchSize records.                                     *)
(* ---------------------------------------------------------------------- *)
C3_ExactlyCapacityRetained ==
  (~ticked /\ nLogs > 2 * BatchSize) => Len(accepted) = 2 * BatchSize

(* ---------------------------------------------------------------------- *)
(* C3 amended: more than 2*BatchSize Log calls on a queue that started     *)
(* empty retain at least 2*BatchSize records, exactly 2*BatchSize when the *)
(* worker dequeued none of them; every other record is dropped, and the    *)
(* retained ones are in the queue, in the batch or flushed, nowhere else.  *)
(* ---------------------------------------------------------------------- *)
C3_AtLeastCapacityRetained ==
  /\ nLogs = Len(accepted) + nDropped
  /\ accepted = flushed \o Pending \o entriesQueue
  /\ nLogs > 2 * BatchSize =>
       /\ Len(accepted) >= 2 * BatchSize
       /\ (Len(entriesQueue) = Len(accepted) => Len(accepted) = 2 * BatchSize)

\* a burst before the first tick of which more than the capacity is retained
C3_Witness ==
  /\ ~ticked
  /\ nLogs > 2 * BatchSize
  /\ Len(accepted) > 2 * BatchSize

(* ---------------------------------------------------------------------- *)
(* C4: a dequeue that brings the batch to BatchSize entries flushes that   *)
(* batch in the same step, consumes no tick, leaves an empty batch, and    *)
(* the worker goes back to its select when the push returns.               *)
(* ---------------------------------------------------------------------- *)
C4_FlushOnSize ==
  /\ [][(Dequeue /\ Len(batch) + 1 = BatchSize) =>
          /\ Flush
          /\ lastBatch' = Append(batch, Head(entriesQueue))
          /\ batch' = <<>>
          /\ tickPending' = tickPending
          /\ pc' \in {"send", "select"}]_vars
  /\ [][(pc = "send" /\ pc' # "send") => (pc' = "select" /\ batch' = <<>>)]_vars

\* a batch of BatchSize = 2 records was flushed with no tick and no shutdown
C4_Witness ==
  /\ BatchSize = 2
  /\ ~ticked
  /\ ~done
  /\ nFlushes = 1
  /\ Len(lastBatch) = BatchSize

(* ---------------------------------------------------------------------- *)
(* C5: when the worker takes a tick, a non-empty batch (even below         *)
(* BatchSize) is flushed and reset; with an empty batch nothing is flushed *)
(* and no HTTP call is started.                                            *)
(* ---------------------------------------------------------------------- *)
C5_FlushOnTick ==
  [][TickTaken =>
       IF batch # <<>>
       THEN /\ Flush
            /\ lastBatch' = batch
            /\ batch' = <<>>
       ELSE /\ nFlushes' = nFlushes
            /\ inFlight' = inFlight
            /\ lastRequest' = lastRequest
            /\ flushed' = flushed
            /\ batch' = <<>>
            /\ pc' = "select"]_vars

\* a batch below BatchSize was flushed by a tick
C5_Witness ==
  /\ ticked
  /\ ~done
  /\ nFlushes = 1
  /\ Len(lastBatch) > 0
  /\ Len(lastBatch) < BatchSize

(* ---------------------------------------------------------------------- *)
(* C6: when the worker takes the shutdown signal with a non-empty batch it *)
(* calls sendBatch once with exactly that batch; from then on it never     *)
(* flushes again and never goes back to its select.                        *)
(* ---------------------------------------------------------------------- *)
C6_FinalFlush ==
  /\ [][DoneTaken =>
          /\ done
          /\ IF batch # <<>>
             THEN Flush /\ lastBatch' = batch /\ flushed' = flushed \o batch
             ELSE nFlushes' = nFlushes /\ flushed' = flushed]_vars
  /\ [][AfterDone =>
          /\ nFlushes' = nFlushes
          /\ flushed' = flushed
          /\ lastRequest' = lastRequest
          /\ pc' \in {"sendFinal", "stopped"}]_vars

\* the worker terminated after a final flush of a non-empty batch
C6_Witness ==
  /\ pc = "stopped"
  /\ batch # <<>>
  /\ lastBatch = batch
  /\ nFlushes >= 1

(* ---------------------------------------------------------------------- *)
(* C7: the streams of a push request partition the batch given to          *)
(* sendBatch: one stream per severity present, every record once in the    *)
(* stream of its severity, labels = default labels plus level = severity.  *)
(* ---------------------------------------------------------------------- *)
C7_StreamsPartitionBatch ==
  nFlushes > 0 =>
    LET ss == lastRequest.Streams
        sevs == {lastBatch[k].Level : k \in DOMAIN lastBatch}
    IN  /\ Len(ss) = Cardinality(sevs)
        /\ {ss[i].Stream["level"] : i \in DOMAIN ss} = sevs
        /\ \A i \in DOMAIN ss :
             /\ DOMAIN ss[i].Stream = DOMAIN Labels \cup {"level"}
             /\ \A k \in DOMAIN Labels \ {"level"} : ss[i].Stream[k] = Labels[k]
        /\ \A k \in DOMAIN lastBatch :
             LET v == <<ToString(lastBatch[k].Timestamp), lastBatch[k].Message>>
                 at == {p \in (DOMAIN ss) \X (1..Len(lastBatch)) :
                          /\ p[2] \in DOMAIN ss[p[1]].Values
                          /\ ss[p[1]].Values[p[2]] = v}
             IN  /\ Cardinality(at) = 1
                 /\ \A p \in at : ss[p[1]].Stream["level"] = lastBatch[k].Level
        /\ \A i \in DOMAIN ss : \A j \in DOMAIN ss[i].Values :
             \E k \in DOMAIN lastBatch :
               ss[i].Values[j] =
                 <<ToString(lastBatch[k].Timestamp), lastBatch[k].Message>>

\* a batch of three records of two severities was turned into two streams
C7_Witness ==
  /\ nFlushes > 0
  /\ Len(lastBatch) >= 3
  /\ Len(lastRequest.Streams) = 2

(* ---------------------------------------------------------------------- *)
(* C8: in every stream of a push the values are in the order in which the  *)
(* records were accepted into the queue, and over all pushes the values of *)
(* a level are a prefix of the accepted records of that level.             *)
(* ---------------------------------------------------------------------- *)
C8_StreamOrderIsArrivalOrder ==
  /\ \A s \in StreamsOf(lastRequest) :
       \A i, j \in DOMAIN s.Values :
         i < j => AcceptPos(s.Values[i]) < AcceptPos(s.Values[j])
  /\ \A l \in Levels :
       /\ Len(streamed[l]) <= Len(ExpectedStream(l))
       /\ \A k \in DOMAIN streamed[l] : streamed[l][k] = ExpectedStream(l)[k]

\* a stream holds the first and third record of a batch, the other the second
C8_Witness ==
  /\ Len(lastBatch) = 3
  /\ lastBatch[1].Level = lastBatch[3].Level
  /\ lastBatch[1].Level # lastBatch[2].Level
  /\ \E s \in StreamsOf(lastRequest) : Len(s.Values) = 2

(* ---------------------------------------------------------------------- *)
(* C9: a failed flush discards the batch: no record given to sendBatch is  *)
(* ever in the queue or in a later batch again, so no record is in more    *)
(* than one push attempt, and after a failure the worker is back in its    *)
(* select with an empty batch (or terminated after the final flush).       *)
(* ---------------------------------------------------------------------- *)
C9_FailedBatchDiscarded ==
  /\ [](\A i \in 1..MaxLogs : FlushCount(i) <= 1)
  /\ [](\A k \in DOMAIN flushed :
          /\ \A q \in DOMAIN entriesQueue : entriesQueue[q] # flushed[k]
          /\ \A b \in DOMAIN Pending : Pending[b] # flushed[k])
  /\ [][(lastFailed' /\ (Flush \/ inFlight' < inFlight)) =>
          /\ flushed' = flushed \o (IF Flush THEN lastBatch' ELSE <<>>)
          /\ Len(entriesQueue') <= Len(entriesQueue)
          /\ IF pc = "sendFinal" \/ DoneTaken
             THEN pc' = "stopped"
             ELSE pc' = "select" /\ batch' = <<>>]_vars

\* after a failed flush the worker went on and holds a newer record
C9_Witness ==
  /\ lastFailed
  /\ pc = "select"
  /\ flushed # <<>>
  /\ batch # <<>>

(* ---------------------------------------------------------------------- *)
(* C10: at most one push is in flight, and while one is in flight a Log    *)
(* call still completes at once: it enqueues or drops, and leaves the      *)
(* worker and the push alone.                                              *)
(* ---------------------------------------------------------------------- *)
C10_OnePushInFlight ==
  /\ [](inFlight <= 1)
  /\ []((inFlight > 0 /\ ~panicked /\ nLogs < MaxLogs) => ENABLED LogAny)
  /\ [][(inFlight > 0 /\ LogCall) =>
          /\ inFlight' = inFlight
          /\ pc' = pc
          /\ \/ Len(entriesQueue') = Len(entriesQueue) + 1
             \/ entriesQueue' = entriesQueue /\ nDropped' = nDropped + 1]_vars

\* the queue filled up behind a push that is still in flight
C10_Witness ==
  /\ inFlight = 1
  /\ BatchSize = 1
  /\ Len(entriesQueue) = 2 * BatchSize

(* ---------------------------------------------------------------------- *)
(* Vocabulary of the store properties                                      *)
(* ---------------------------------------------------------------------- *)
Occurrences(m, seq) == Cardinality({k \in DOMAIN seq : seq[k] = m})

\* no logger call is between its LoadAndDelete and its Set
Idle == \A g \in Goroutines : gpc[g] = "idle"

\* the messages held in the local variables of the calls in progress
RECURSIVE HeldBy(_)
HeldBy(G) ==
  IF G = {} THEN <<>>
  ELSE LET g == CHOOSE h \in G : TRUE IN glocal[g] \o HeldBy(G \ {g})

LoggerCallStep == nCalls' = nCalls + 1

DebugOps == {"DebugF", "Debug"}

\* the spellings of APP_ENV that denote production, case-insensitively
ProductionSpellings == {"production", "Production", "PRODUCTION"}

ExpectedPrefix(op) ==
  IF op \in {"Errorf", "Error"} THEN "ERROR"
  ELSE IF op \in {"DebugF", "Debug"} THEN "DEBUG" ELSE "INFO"

StoreUntouched ==
  UNCHANGED <<slot, saltKey, gpc, glocal, gmsg, stored, popped>>

(* ---------------------------------------------------------------------- *)
(* C11: once all append calls have completed, the messages popped so far   *)
(* plus those a final PopAll would return are as many as the appends that  *)
(* completed: none is lost, none is duplicated.                            *)
(* ---------------------------------------------------------------------- *)
C11_NoAppendLost ==
  Idle => Len(Flatten(popped)) + Len(slot.val) = Len(stored)

(* ---------------------------------------------------------------------- *)
(* C12: the message of every completed append is in exactly one PopAll     *)
(* result, or still waits for the next PopAll: never in two places, never  *)
(* in none.                                                                *)
(* ---------------------------------------------------------------------- *)
C12_PopAllLinearizable ==
  \A k \in DOMAIN stored :
    Occurrences(stored[k], Flatten(popped) \o slot.val \o HeldBy(Goroutines)) = 1

(* ---------------------------------------------------------------------- *)
(* C13: when store operations never overlap, the PopAll results followed   *)
(* by the messages still in the slot are exactly the appended messages in  *)
(* append order; a PopAll that follows a PopAll directly returns <<>>.     *)
(* ---------------------------------------------------------------------- *)
C13_SequentialPopAll ==
  (~overlap /\ Idle) => Flatten(popped) \o slot.val = stored

\* two appends, a PopAll returning both in order, a second PopAll returning <<>>
C13_Witness ==
  /\ ~overlap
  /\ Len(stored) = 2
  /\ Len(popped) = 2
  /\ popped[1] = stored
  /\ popped[2] = <<>>

(* ---------------------------------------------------------------------- *)
(* C14: a Debug or DebugF call made while APP_ENV spells production, in    *)
(* any case, changes no slot of the store and prints nothing; the flag is  *)
(* read at each call, so a call made while it does not spell production    *)
(* prints or starts an append whatever the flag was before.                *)
(* ---------------------------------------------------------------------- *)
C14_DebugSuppressedInProduction ==
  [][(LoggerCallStep /\ lastCall'.op \in DebugOps) =>
       IF appEnv \in ProductionSpellings
       THEN StoreUntouched /\ emitted' = emitted
       ELSE emitted' # emitted \/ gpc' # gpc]_vars

\* the first call was suppressed, the second, a debug call, was stored
C14_Witness ==
  /\ Idle
  /\ nCalls = 2
  /\ emitted = <<>>
  /\ stored = <<[Level |-> "debug", Message |-> 2]>>

(* ---------------------------------------------------------------------- *)
(* C15 as stated: every logger call with a nil context or a context        *)
(* without store prints one line with the level prefix and touches no      *)
(* store.                                                                  *)
(* ---------------------------------------------------------------------- *)
C15_FallbackAlwaysEmits ==
  [][(LoggerCallStep /\ lastCall'.ctx \in {"nil", "bare"}) =>
       /\ StoreUntouched
       /\ Len(emitted') = Len(emitted) + 1
       /\ emitted'[Len(emitted')][1] = ExpectedPrefix(lastCall'.op)]_vars

(* ---------------------------------------------------------------------- *)
(* C15 amended: a logger call with a nil context or a context without      *)
(* store touches no store and returns; it prints one line with the level   *)
(* prefix, except a Debug or DebugF call while APP_ENV spells production,  *)
(* which prints nothing.                                                   *)
(* ---------------------------------------------------------------------- *)
C15_FallbackEmitsUnlessSuppressed ==
  [][(LoggerCallStep /\ lastCall'.ctx \in {"nil", "bare"}) =>
       /\ StoreUntouched
       /\ IF lastCall'.op \in DebugOps /\ appEnv \in ProductionSpellings
          THEN emitted' = emitted
          ELSE /\ Len(emitted') = Len(emitted) + 1
               /\ SubSeq(emitted', 1, Len(emitted)) = emitted
               /\ emitted'[Len(emitted')][1] = ExpectedPrefix(lastCall'.op)
               /\ emitted'[Len(emitted')][2] = nCalls + 1]_vars

\* one call with a nil context and one with a context without store printed
C15_Witness ==
  /\ Len(emitted) = 2
  /\ emitted[1][3] = "nil context"
  /\ emitted[2][3] = "logger not found in context"
  /\ stored = <<>>
  /\ slot = AbsentSlot

(* ---------------------------------------------------------------------- *)
(* Vocabulary of the facade and adapter properties                         *)
(* ---------------------------------------------------------------------- *)
\* how many times close(c.done) was executed
StopSignals == Cardinality({k \in DOMAIN closeTrace : closeTrace[k].what = "stop"})

Owns(i) == loggers[i].lokiClient # "nil"

Priority == <<"debug", "info", "warn", "error", "fatal">>

\* the keywords that occur somewhere in the text, by rank
Found(p) ==
  {k \in DOMAIN Priority :
     \E a, b \in 0..Len(p) : a < b /\ SubSeq(p, a + 1, b) = Keyword[Priority[k]]}

ExpectedSeverity(p) ==
  IF Found(p) = {} THEN "info"
  ELSE Priority[CHOOSE k \in Found(p) : \A j \in Found(p) : k <= j]

(* ---------------------------------------------------------------------- *)
(* C16: Write hands to Log the text unmodified, with the severity of the   *)
(* first of debug, info, warn, error, fatal that occurs in the text, info  *)
(* when none occurs, and returns the length of the text.                   *)
(* ---------------------------------------------------------------------- *)
C16_SeverityInference ==
  [][nLogs' = nLogs + 1 =>
       /\ lastWrite'.n = Len(lastWrite'.p)
       /\ \/ /\ Len(entriesQueue) < Capacity
             /\ entriesQueue' = Append(entriesQueue,
                  [Timestamp |-> nLogs + 1,
                   Level |-> ExpectedSeverity(lastWrite'.p),
                   Message |-> lastWrite'.p])
          \/ /\ Len(entriesQueue) = Capacity
             /\ entriesQueue' = entriesQueue]_vars

\* a line with error before debug was enqueued as debug
C16_Witness ==
  /\ lastWrite.p = Keyword.error \o Keyword.debug
  /\ Len(entriesQueue) = 1
  /\ entriesQueue[1].Level = "debug"
  /\ entriesQueue[1].Message = lastWrite.p

(* ---------------------------------------------------------------------- *)
(* C17: whatever facade operations run, on whatever Logger derived from    *)
(* the one New returned, close(c.done) is executed at most once.           *)
(* ---------------------------------------------------------------------- *)
C17_StopSignalledAtMostOnce == StopSignals <= 1

(* ---------------------------------------------------------------------- *)
(* C18: a Close of a Logger that owns a client runs Stop first and Sync    *)
(* after it, both before it returns; a Close of a Logger without client    *)
(* runs Sync only.                                                         *)
(* ---------------------------------------------------------------------- *)
C18_StopBeforeSync ==
  \A k \in DOMAIN closeTrace :
    LET e == closeTrace[k]
        then(what) == k < Len(closeTrace) /\ closeTrace[k + 1] = Event(e.logger, what)
        after(what) == k > 1 /\ closeTrace[k - 1] = Event(e.logger, what)
    IN  /\ e.what = "close" => IF Owns(e.logger) THEN then("stop") ELSE then("sync")
        /\ e.what = "stop" => Owns(e.logger) /\ after("close") /\ done
        /\ e.what = "sync" => IF Owns(e.logger) THEN after("stop") ELSE after("close")

\* a Close with a client and, on the other start, a Close without
C18_Witness ==
  \/ /\ closeTrace = <<Event(2, "close"), Event(2, "stop"), Event(2, "sync")>>
     /\ done
  \/ /\ closeTrace = <<Event(1, "close"), Event(1, "sync")>>
     /\ ~done
     /\ ~Owns(1)

(* ---------------------------------------------------------------------- *)
(* C19: the capacity of the queue is twice the effective batch size, which *)
(* is the configured batch size or 100 when that is not positive; it never *)
(* changes, and the queue holds between 0 and capacity records.            *)
(* ---------------------------------------------------------------------- *)
C19_QueueCapacityFixed ==
  /\ [](/\ Capacity = 2 * (IF cfgBatchSize <= 0 THEN 100 ELSE cfgBatchSize)
        /\ Len(entriesQueue) >= 0
        /\ Len(entriesQueue) <= Capacity)
  /\ [][Capacity' = Capacity /\ cfgBatchSize' = cfgBatchSize]_vars

\* the queue of a client configured with batch size 1 is full and a record
\* was dropped
C19_Witness ==
  /\ cfgBatchSize = 1
  /\ Len(entriesQueue) = Capacity
  /\ nDropped > 0

(* ---------------------------------------------------------------------- *)
(* C20: once the shutdown signal is raised the worker eventually           *)
(* terminates, and by then every record of its batch has been given to     *)
(* sendBatch.                                                              *)
(* ---------------------------------------------------------------------- *)
C20_WorkerTerminatesAfterStop ==
  done ~> (pc = "stopped" /\ \A k \in DOMAIN batch : \E j \in DOMAIN flushed :
                                 flushed[j] = batch[k])

(* ---------------------------------------------------------------------- *)
(* Vocabulary of the call site property                                    *)
(* ---------------------------------------------------------------------- *)
\* the file text up to its colon
Location(file) ==
  LET k == CHOOSE i \in DOMAIN file : file[i] = ":" IN SubSeq(file, 1, k - 1)

\* the path segments of a text: its maximal runs of characters without "/"
NumSegments(t) ==
  Cardinality({i \in DOMAIN t : t[i] # "/" /\ (i = 1 \/ t[i - 1] = "/")})

(* ---------------------------------------------------------------------- *)
(* C21: the caller location a logger method makes of the file name has at  *)
(* most two path segments, whatever the file name.                         *)
(* ---------------------------------------------------------------------- *)
C21_AtMostTwoSegments ==
  callSite # NoCallSite => NumSegments(Location(callSite.file)) <= 2

(* ---------------------------------------------------------------------- *)
(* C22: after the shutdown signal, and after the worker has returned, a    *)
(* Log call still completes and never panics: it appends the record while  *)
(* the queue holds fewer than 2*BatchSize records and drops it otherwise.  *)
(* Once the worker has returned nothing is dequeued or flushed any more,   *)
(* so no record of the queue is ever given to sendBatch.                   *)
(* ---------------------------------------------------------------------- *)
C22_LogAfterStop ==
  /\ []((done /\ ~panicked /\ nLogs < MaxLogs) => ENABLED LogAny)
  /\ [][(LogCall /\ done) =>
          /\ panicked' = panicked
          /\ pc' = pc
          /\ IF Len(entriesQueue) < 2 * BatchSize
             THEN /\ Len(entriesQueue') = Len(entriesQueue) + 1
                  /\ IsPrefix(entriesQueue, entriesQueue')
                  /\ accepted' = Append(accepted, entriesQueue'[Len(entriesQueue')])
                  /\ nDropped' = nDropped
             ELSE /\ entriesQueue' = entriesQueue
                  /\ accepted' = accepted
                  /\ nDropped' = nDropped + 1]_vars
  /\ [][pc = "stopped" =>
          /\ pc' = "stopped"
          /\ flushed' = flushed
          /\ nFlushes' = nFlushes
          /\ IsPrefix(entriesQueue, entriesQueue')]_vars
  /\ [](pc = "stopped" =>
          \A k \in DOMAIN entriesQueue : FlushCount(entriesQueue[k].Timestamp) = 0)

\* the worker returned without a flush; the queue was then filled and a
\* record dropped
C22_Witness ==
  /\ pc = "stopped"
  /\ ~panicked
  /\ flushed = <<>>
  /\ Len(entriesQueue) = 2 * BatchSize
  /\ nDropped > 0

(* ---------------------------------------------------------------------- *)
(* C23: while the worker waits in its select the batch holds fewer than    *)
(* BatchSize records; every batch given to sendBatch holds between 1 and   *)
(* BatchSize records, and every stream of the request built from it has at *)
(* least one value.                                                        *)
(* ---------------------------------------------------------------------- *)
C23_BatchBelowBatchSize ==
  /\ pc = "select" => Len(batch) < BatchSize
  /\ nFlushes > 0 =>
       /\ Len(lastBatch) >= 1
       /\ Len(lastBatch) <= BatchSize
       /\ lastRequest.Streams # <<>>
       /\ \A st \in StreamsOf(lastRequest) : Len(st.Values) >= 1

\* a full batch of two levels was pushed and the worker collects the next
C23_Witness ==
  /\ pc = "select"
  /\ BatchSize = 2
  /\ Len(lastBatch) = BatchSize
  /\ Len(lastRequest.Streams) = 2
  /\ Len(batch) = BatchSize - 1

====
